---- MODULE Spec2Model ----
(***************************************************************************)
(* Model of the video ingestion handler of the Tubely file server:         *)
(* handlerUploadVideo, getVideoAspectRatio, processVideoForFastStart,      *)
(* generatePresignedURL and dbVideoToSignedVideo                           *)
(* (src/handler_upload_video.go).                                          *)
(*                                                                         *)
(* Strings that the code builds or takes apart (the storage key, the       *)
(* stored pointer, temporary file paths) are sequences of tokens; a token  *)
(* is a run of characters that holds no comma, except the token ",".       *)
(* A *string is a sequence of length 0 (nil) or 1 (a pointer to a string). *)
(***************************************************************************)
EXTENDS Integers, Sequences, FiniteSets, TLC

VARIABLES
    cfg,        \* apiConfig: [s3Bucket, port, assetsRoot]
    db,         \* the metadata store's record of the one video
    s3,         \* objects held by the object store: set of [Bucket, Key, ContentType]
    fs,         \* paths of the files that exist on the local disk
    h,          \* h[p]: locals and position of handler invocation p
    hist,       \* hist[p]: what invocation p has done so far (history)
    numCalls,   \* handler invocations started so far
    geom        \* input and result of a stand-alone geometry classification

vars == <<cfg, db, s3, fs, h, hist, numCalls, geom>>

----------------------------------------------------------------------------
(* Bounds *)

\* handler invocations per behaviour
MaxCalls == 2
\* largest stream width and height drawn for the stand-alone classification
MaxWidth == 40
MaxHeight == 21

----------------------------------------------------------------------------
(* Values *)

\* the handler invocations; Spec runs them one after the other on "p1"
Procs == {"p1"}

\* two invocations of handlerUploadVideo that run at the same time
Pair == {"p1", "p2"}

\* an invocation of handlerUploadThumbnail
Thumbs == {"t1"}

Handlers == Procs \cup Pair \cup Thumbs

Nil == <<>>
Ptr(s) == <<s>>

\* the size the comment at the declaration of maxMemory names: 1 GB
OneGB == 1073741824

\* x >> n on non-negative integers
ShiftRight(x, n) == x \div (2 ^ n)

\* const maxMemory = 1 >> 30
maxMemory == ShiftRight(1, 30)

Users == {"alice", "bob"}

\* cfg.s3Bucket is free-form configuration
Buckets == {<<"tubely">>, <<"tube", ",", "ly">>}

\* sizes of the request body
BodySizes == {1, OneGB, OneGB + 1}

\* declared Content-Type headers of the uploaded part
ContentHeaders ==
    {"", "video/mp4", "Video/MP4; codecs=avc1", "video/mp4; codecs",
     "video/webm", "image/png"}

\* mime.ParseMediaType on the headers above: the media type is lower-cased,
\* its parameters are split off, a parameter without '=' is an error
ParseMediaType(v) ==
    CASE v = "video/mp4"              -> [mediatype |-> "video/mp4",  err |-> FALSE]
      [] v = "Video/MP4; codecs=avc1" -> [mediatype |-> "video/mp4",  err |-> FALSE]
      [] v = "video/webm"             -> [mediatype |-> "video/webm", err |-> FALSE]
      [] v = "image/png"              -> [mediatype |-> "image/png",  err |-> FALSE]
      [] v = "image/jpeg"             -> [mediatype |-> "image/jpeg", err |-> FALSE]
      [] v = "video/mp4; codecs"      -> [mediatype |-> "",           err |-> TRUE]
      [] OTHER                        -> [mediatype |-> "",           err |-> TRUE]

\* random suffixes os.CreateTemp may pick
TempSuffixes == {"101", "202"}

\* the 32 random bytes; "zero" is the buffer make() returns, left as it is
\* when rand.Read fails
RandBytes == {"zero", "ra", "rb"}

\* base64.URLEncoding.EncodeToString of 32 bytes: 43 characters of the
\* URL-safe alphabet and one '=' of padding
EncodeToString(b) ==
    CASE b = "zero" -> <<"AAAAAAAAAAAAAAAAAAAAAAAAAAAAAAAAAAAAAAAAAAA", "=">>
      [] b = "ra"   -> <<"q-_7Zk0mW3vT1c9hJp2sYx8dLr4uNe6aGbQoXiCfHgE", "=">>
      [] OTHER      -> <<"Zm9vX2Jhcl8tYmF6LXF1eF9fMTIzNDU2Nzg5MGFiY2Q", "=">>

\* what ffprobe -show_streams can print, decoded: width and height are 0 for
\* a stream that has none (an audio stream)
Stream(w, ht) == [Width |-> w, Height |-> ht]
StreamLists ==
    {<<>>,
     <<Stream(1920, 1080)>>,
     <<Stream(1080, 1920)>>,
     <<Stream(640, 640)>>,
     <<Stream(0, 0), Stream(1920, 1080)>>}

----------------------------------------------------------------------------
(* Pure functions of the source *)

\* float64(w) / float64(ht) >= n / d, for the literal n/d.  The division is
\* correctly rounded and the literal is the double nearest to n/d, so for
\* operands below 2^26 the comparison of the doubles is the comparison of the
\* rationals.  Division by zero gives +Inf (w > 0) or NaN (w = 0).
RatioGE(w, ht, n, d) ==
    IF ht = 0 THEN w > 0 ELSE w * d >= n * ht

\* float64(w) / float64(ht) <= n / d
RatioLE(w, ht, n, d) ==
    IF ht = 0 THEN FALSE ELSE w * d <= n * ht

\* aspectRatio >= 1.7 && aspectRatio <= 1.85 with strict bounds: a faulty variant
AspectWindowsStrict(w, ht) ==
    IF RatioGE(w, ht, 17, 10) /\ RatioLE(w, ht, 37, 20)
          /\ w * 10 # 17 * ht /\ w * 20 # 37 * ht
    THEN "16:9"
    ELSE IF RatioGE(w, ht, 1, 2) /\ RatioLE(w, ht, 3, 5)
          /\ w * 2 # ht /\ w * 5 # 3 * ht
    THEN "9:16"
    ELSE "other"

\* the classification of getVideoAspectRatio
AspectWindows(w, ht) ==
    IF RatioGE(w, ht, 17, 10) /\ RatioLE(w, ht, 37, 20) THEN "16:9"
    ELSE IF RatioGE(w, ht, 1, 2) /\ RatioLE(w, ht, 3, 5) THEN "9:16"
    ELSE "other"

\* getVideoAspectRatio answering "other" when the run or the decoding fails:
\* a faulty variant
getVideoAspectRatioSwallows(probe) ==
    IF probe.runErr \/ probe.decodeErr
    THEN [result |-> "other", err |-> FALSE, panic |-> FALSE]
    ELSE IF Len(probe.streams) = 0
    THEN [result |-> "", err |-> FALSE, panic |-> TRUE]
    ELSE LET videoStream == probe.streams[1]
         IN [result |-> AspectWindows(videoStream.Width, videoStream.Height),
             err |-> FALSE, panic |-> FALSE]

\* getVideoAspectRatio on what the ffprobe run gave: its result, its error,
\* or the run-time panic of indexing an empty slice
getVideoAspectRatio(probe) ==
    IF probe.runErr \/ probe.decodeErr
    THEN [result |-> "", err |-> TRUE, panic |-> FALSE]
    ELSE IF Len(probe.streams) = 0
    THEN [result |-> "", err |-> FALSE, panic |-> TRUE]
    ELSE LET videoStream == probe.streams[1]
         IN [result |-> AspectWindows(videoStream.Width, videoStream.Height),
             err |-> FALSE, panic |-> FALSE]

\* the aspect ratio itself used as the prefix: a faulty variant
aspectRatioPrefixRaw(aspectRatio) == aspectRatio

\* the switch on aspectRatio in handlerUploadVideo
aspectRatioPrefix(aspectRatio) ==
    CASE aspectRatio = "16:9" -> "landscape"
      [] aspectRatio = "9:16" -> "portrait"
      [] OTHER                -> "other"

\* fmt.Sprintf("%s/%s.mp4", aspectRatioPrefix, base64...(randBytes))
fileKeyOf(prefix, randBytes) ==
    <<prefix, "/">> \o EncodeToString(randBytes) \o <<".mp4">>

\* the pointer joined with a slash: a faulty variant
videoUrlOfSlash(bucket, fileKey) == bucket \o <<"/">> \o fileKey

\* fmt.Sprintf("%s,%s", cfg.s3Bucket, fileKey)
videoUrlOf(bucket, fileKey) == bucket \o <<",">> \o fileKey

\* os.CreateTemp("", "tubley-upload.mp4"): the pattern followed by a suffix
TempName(suffix) == <<"/tmp/", "tubley-upload.mp4", suffix>>

\* one output path for every staged file: a faulty variant
outputPathShared(filePath) == <<"/tmp/", "tubley-upload.mp4", ".processing">>

\* outputPath := filePath + ".processing"
outputPathOf(filePath) == filePath \o <<".processing">>

\* strings.Split(s, ","), the part being collected in cur
RECURSIVE SplitFrom(_, _)
SplitFrom(s, cur) ==
    IF s = <<>> THEN <<cur>>
    ELSE IF Head(s) = "," THEN <<cur>> \o SplitFrom(Tail(s), <<>>)
    ELSE SplitFrom(Tail(s), Append(cur, Head(s)))

Split(s) == SplitFrom(s, <<>>)

\* http.MaxBytesReader(w, r.Body, n): a reader that fails after n bytes
MaxBytesReader(body, n) == [body EXCEPT !.limit = Ptr(n)]

\* whether reading the whole of body fails on its limit
OverLimit(body) == body.limit # Nil /\ body.size > body.limit[1]

----------------------------------------------------------------------------
(* The signed playback URL *)

\* time.Hour*1, in seconds
expireTime == 3600

\* generatePresignedURL: the URL PresignGetObject gives for bucket and key,
\* or its error
generatePresignedURL(bucket, key, expire, presignErr) ==
    IF presignErr
    THEN [url |-> <<>>, err |-> TRUE]
    ELSE [url |-> <<"https://">> \o bucket \o <<".s3.amazonaws.com/">> \o key
                    \o <<"?X-Amz-Expires=", ToString(expire), "&X-Amz-Signature=sig">>,
          err |-> FALSE]

\* dbVideoToSignedVideo: the record it returns, its error, and whether it
\* asked for a signed URL
dbVideoToSignedVideo(video, presignErr) ==
    IF video.VideoURL = Nil
    THEN [video |-> video, err |-> FALSE, signed |-> FALSE]
    ELSE LET split == Split(video.VideoURL[1]) IN
         IF Len(split) # 2
         THEN [video |-> video, err |-> FALSE, signed |-> FALSE]
         ELSE LET bucket == split[1]
                  key == split[2]
                  presigned == generatePresignedURL(bucket, key, expireTime, presignErr)
              IN IF presigned.err
                 THEN [video |-> video, err |-> TRUE, signed |-> TRUE]
                 ELSE [video |-> [video EXCEPT !.VideoURL = Ptr(presigned.url)],
                       err |-> FALSE, signed |-> TRUE]

----------------------------------------------------------------------------
(* The conditions handlerUploadVideo returns on *)

\* video.UserID != userID never true: a faulty variant
notOwnerNever(video, userID) == FALSE

\* if video.UserID != userID
notOwner(video, userID) == video.UserID # userID

\* the media type check passing every type that parses: a faulty variant
mediaTypeCheckAnyType(contentHeader) ==
    IF contentHeader = ""
    THEN [ok |-> FALSE, msg |-> "Couldn't find media type", mediaType |-> ""]
    ELSE LET parsed == ParseMediaType(contentHeader) IN
         IF parsed.err
         THEN [ok |-> FALSE, msg |-> "Couldn't parse media type", mediaType |-> ""]
         ELSE [ok |-> TRUE, msg |-> "", mediaType |-> parsed.mediatype]

\* the media type check passing every video type: a faulty variant
mediaTypeCheckAnyVideo(contentHeader) ==
    IF contentHeader = ""
    THEN [ok |-> FALSE, msg |-> "Couldn't find media type", mediaType |-> ""]
    ELSE LET parsed == ParseMediaType(contentHeader) IN
         IF parsed.err
         THEN [ok |-> FALSE, msg |-> "Couldn't parse media type", mediaType |-> ""]
         ELSE IF parsed.mediatype \notin {"video/mp4", "video/webm"}
         THEN [ok |-> FALSE, msg |-> "Unsupported media type", mediaType |-> ""]
         ELSE [ok |-> TRUE, msg |-> "", mediaType |-> parsed.mediatype]

\* the three checks of the declared Content-Type
mediaTypeCheck(contentHeader) ==
    IF contentHeader = ""
    THEN [ok |-> FALSE, msg |-> "Couldn't find media type", mediaType |-> ""]
    ELSE LET parsed == ParseMediaType(contentHeader) IN
         IF parsed.err
         THEN [ok |-> FALSE, msg |-> "Couldn't parse media type", mediaType |-> ""]
         ELSE IF parsed.mediatype # "video/mp4"
         THEN [ok |-> FALSE, msg |-> "Unsupported media type", mediaType |-> ""]
         ELSE [ok |-> TRUE, msg |-> "", mediaType |-> parsed.mediatype]

\* the error of PutObject not looked at: a faulty variant
putObjectReturnsNever(err) == FALSE

\* if err != nil { ...; return } after PutObject
putObjectReturns(err) == err

----------------------------------------------------------------------------
(* State *)

\* database.Video{}
NoVideo == [ID |-> "", UserID |-> "", VideoURL |-> Nil, ThumbnailURL |-> Nil]

NoResp == [code |-> 0, msg |-> "", body |-> Nil]

\* r.Body as the server hands it to the handler
RequestBody(size) == [size |-> size, limit |-> Nil]

Locals ==
    [pc |-> "idle", body |-> RequestBody(0), userID |-> "", video |-> NoVideo,
     file |-> FALSE, contentHeader |-> "", mediaType |-> "", tempFile |-> <<>>,
     processedFilePath |-> <<>>, randBytes |-> "zero", aspectRatio |-> "",
     fileKey |-> <<>>, fileName |-> <<>>, defers |-> <<>>, resp |-> NoResp]

History ==
    [calls |-> {}, created |-> {}, ptrBefore |-> Nil, copied |-> 0,
     ignored |-> {}, probe |-> Nil, put |-> {}, wrote |-> FALSE,
     steps |-> <<>>, outputPath |-> <<>>]

Init ==
    /\ cfg \in [s3Bucket : Buckets, port : {"8091"}, assetsRoot : {"./assets"}]
    /\ db = [ID |-> "vid", UserID |-> "alice", VideoURL |-> Nil, ThumbnailURL |-> Nil]
    /\ s3 = {}
    /\ fs = {}
    /\ h = [p \in Handlers |-> Locals]
    /\ hist = [p \in Handlers |-> History]
    /\ numCalls = 0
    /\ geom = [Width |-> 0, Height |-> 0, category |-> "none"]

\* cfg.db.GetVideo: the record the metadata store holds
dbGetVideo(stored) == stored

\* cfg.db.UpdateVideo: the store holds the record it is given, every field
dbUpdateVideo(stored, video) == video

\* the deferred os.Remove calls of hp, run on files
RunDefers(hp, files) == files \ {hp.defers[i] : i \in DOMAIN hp.defers}

\* respondWithError / respondWithJSON, then return: the deferred calls run
Respond(p, hp, files, code, msg, body) ==
    /\ h' = [h EXCEPT ![p] = [hp EXCEPT !.pc = "done", !.defers = <<>>,
                                        !.resp = [code |-> code, msg |-> msg, body |-> body]]]
    /\ fs' = RunDefers(hp, files)

\* a run-time panic: the deferred calls run, net/http recovers and drops the
\* connection, nothing is written to w
Panic(p, hp, files) ==
    /\ h' = [h EXCEPT ![p] = [hp EXCEPT !.pc = "panic", !.defers = <<>>]]
    /\ fs' = RunDefers(hp, files)

Goto(p, hp, pc) ==
    /\ h' = [h EXCEPT ![p] = [hp EXCEPT !.pc = pc]]
    /\ UNCHANGED fs

Called(p, name) == hist' = [hist EXCEPT ![p].calls = @ \cup {name}]

----------------------------------------------------------------------------
(* handlerUploadVideo, one action per step *)

\* the handler is entered: the reader MaxBytesReader returns is dropped, so
\* r.Body stays the reader the server passed
Start(p) ==
    /\ h[p].pc \in {"idle", "done", "panic"}
    /\ numCalls < MaxCalls
    /\ \E size \in BodySizes :
         LET body == RequestBody(size)
             dropped == MaxBytesReader(body, maxMemory)
         IN h' = [h EXCEPT ![p] = [Locals EXCEPT !.pc = "ParseID", !.body = body]]
    /\ hist' = [hist EXCEPT ![p] = [History EXCEPT !.ptrBefore = db.VideoURL]]
    /\ numCalls' = numCalls + 1
    /\ UNCHANGED <<cfg, db, s3, fs, geom>>

\* uuid.Parse(r.PathValue("videoID"))
ParseID(p) ==
    /\ h[p].pc = "ParseID"
    /\ \E err \in BOOLEAN :
         IF err
         THEN Respond(p, h[p], fs, 400, "Invalid ID", Nil)
         ELSE Goto(p, h[p], "GetBearerToken")
    /\ UNCHANGED <<cfg, db, s3, hist, numCalls, geom>>

\* auth.GetBearerToken(r.Header)
GetBearerToken(p) ==
    /\ h[p].pc = "GetBearerToken"
    /\ \E err \in BOOLEAN :
         IF err
         THEN Respond(p, h[p], fs, 401, "Couldn't find JWT", Nil)
         ELSE Goto(p, h[p], "ValidateJWT")
    /\ UNCHANGED <<cfg, db, s3, hist, numCalls, geom>>

\* auth.ValidateJWT(token, cfg.jwtSecret)
ValidateJWT(p) ==
    /\ h[p].pc = "ValidateJWT"
    /\ \/ Respond(p, h[p], fs, 401, "Couldn't validate JWT", Nil)
       \/ \E userID \in Users :
            Goto(p, [h[p] EXCEPT !.userID = userID], "GetVideo")
    /\ UNCHANGED <<cfg, db, s3, hist, numCalls, geom>>

\* cfg.db.GetVideo(videoID)
GetVideo(p) ==
    /\ h[p].pc = "GetVideo"
    /\ Called(p, "GetVideo")
    /\ \E err \in BOOLEAN :
         IF err
         THEN Respond(p, h[p], fs, 500, "Couldn't find video", Nil)
         ELSE Goto(p, [h[p] EXCEPT !.video = dbGetVideo(db)], "CheckOwner")
    /\ UNCHANGED <<cfg, db, s3, numCalls, geom>>

\* if video.UserID != userID
CheckOwner(p) ==
    /\ h[p].pc = "CheckOwner"
    /\ IF notOwner(h[p].video, h[p].userID)
       THEN Respond(p, h[p], fs, 401, "You do not have permission", Nil)
       ELSE Goto(p, h[p], "FormFile")
    /\ UNCHANGED <<cfg, db, s3, hist, numCalls, geom>>

\* r.FormFile("video"): the multipart body is read through r.Body
FormFile(p) ==
    /\ h[p].pc = "FormFile"
    /\ \E err \in BOOLEAN, contentHeader \in ContentHeaders :
         IF err \/ OverLimit(h[p].body)
         THEN /\ contentHeader = ""
              /\ Respond(p, h[p], fs, 400, "Unable to parse form file", Nil)
         ELSE Goto(p, [h[p] EXCEPT !.file = TRUE, !.contentHeader = contentHeader],
                   "ContentType")
    /\ UNCHANGED <<cfg, db, s3, hist, numCalls, geom>>

\* the checks of header.Header.Get("Content-Type")
ContentType(p) ==
    /\ h[p].pc = "ContentType"
    /\ LET check == mediaTypeCheck(h[p].contentHeader) IN
         IF ~check.ok
         THEN Respond(p, h[p], fs, 400, check.msg, Nil)
         ELSE Goto(p, [h[p] EXCEPT !.mediaType = check.mediaType], "CreateTemp")
    /\ UNCHANGED <<cfg, db, s3, hist, numCalls, geom>>

\* os.CreateTemp("", "tubley-upload.mp4"); defer os.Remove(tempFile.Name())
CreateTemp(p) ==
    /\ h[p].pc = "CreateTemp"
    /\ \/ /\ Respond(p, h[p], fs, 500, "Couldn't create temporary file", Nil)
          /\ UNCHANGED hist
       \/ \E suffix \in TempSuffixes :
            LET name == TempName(suffix) IN
            /\ name \notin fs
            /\ h' = [h EXCEPT ![p] = [@ EXCEPT !.pc = "Copy", !.tempFile = name,
                                               !.defers = <<name>> \o @]]
            /\ fs' = fs \cup {name}
            /\ hist' = [hist EXCEPT ![p].created = @ \cup {name}]
    /\ UNCHANGED <<cfg, db, s3, numCalls, geom>>

\* io.Copy(tempFile, file); tempFile.Seek(0, io.SeekStart); tempFile.Close():
\* no result is looked at
Copy(p) ==
    /\ h[p].pc = "Copy"
    /\ \E copyErr \in BOOLEAN, seekErr \in BOOLEAN :
         hist' = [hist EXCEPT
                    ![p].copied = IF copyErr THEN 0 ELSE h[p].body.size,
                    ![p].ignored = @ \cup (IF copyErr THEN {"io.Copy"} ELSE {})
                                     \cup (IF seekErr THEN {"Seek"} ELSE {}),
                    ![p].steps = Append(@, [op |-> "io.Copy", ok |-> ~copyErr])]
    /\ Goto(p, h[p], "FastStart")
    /\ UNCHANGED <<cfg, db, s3, numCalls, geom>>

\* processVideoForFastStart(tempFile.Name()); defer os.Remove(processedFilePath).
\* ffmpeg, run without -y, does not write over a file that exists; when it
\* fails it may have created its output file
FastStart(p) ==
    /\ h[p].pc = "FastStart"
    /\ LET outputPath == outputPathOf(h[p].tempFile) IN
       \/ /\ outputPath \notin fs
          /\ h' = [h EXCEPT ![p] = [@ EXCEPT !.pc = "OpenProcessed",
                                             !.processedFilePath = outputPath,
                                             !.defers = <<outputPath>> \o @]]
          /\ fs' = fs \cup {outputPath}
          /\ hist' = [hist EXCEPT ![p].calls = @ \cup {"ffmpeg"},
                                  ![p].created = @ \cup {outputPath},
                                  ![p].outputPath = outputPath,
                                  ![p].steps = Append(@, [op |-> "ffmpeg", ok |-> TRUE])]
       \/ /\ Respond(p, h[p], fs, 500, "Couldn't process video", Nil)
          /\ hist' = [hist EXCEPT ![p].calls = @ \cup {"ffmpeg"},
                                  ![p].outputPath = outputPath,
                                  ![p].steps = Append(@, [op |-> "ffmpeg", ok |-> FALSE])]
       \/ /\ outputPath \notin fs
          /\ Respond(p, h[p], fs \cup {outputPath}, 500, "Couldn't process video", Nil)
          /\ hist' = [hist EXCEPT ![p].calls = @ \cup {"ffmpeg"},
                                  ![p].created = @ \cup {outputPath},
                                  ![p].outputPath = outputPath,
                                  ![p].steps = Append(@, [op |-> "ffmpeg", ok |-> FALSE])]
    /\ UNCHANGED <<cfg, db, s3, numCalls, geom>>

\* os.Open(processedFilePath)
OpenProcessed(p) ==
    /\ h[p].pc = "OpenProcessed"
    /\ \E err \in BOOLEAN :
         IF err
         THEN Respond(p, h[p], fs, 500, "Couldn't open processed video", Nil)
         ELSE Goto(p, h[p], "RandRead")
    /\ UNCHANGED <<cfg, db, s3, hist, numCalls, geom>>

\* randBytes := make([]byte, 32); rand.Read(randBytes): no result is looked at
RandRead(p) ==
    /\ h[p].pc = "RandRead"
    /\ \E randBytes \in RandBytes :
         /\ Goto(p, [h[p] EXCEPT !.randBytes = randBytes], "AspectRatio")
         /\ hist' = [hist EXCEPT ![p].ignored =
                        @ \cup (IF randBytes = "zero" THEN {"rand.Read"} ELSE {})]
    /\ UNCHANGED <<cfg, db, s3, numCalls, geom>>

\* what the ffprobe run and the JSON decoder can give
ProbeOutcomes ==
    {[runErr |-> TRUE, decodeErr |-> FALSE, streams |-> <<>>],
     [runErr |-> FALSE, decodeErr |-> TRUE, streams |-> <<>>]}
    \cup {[runErr |-> FALSE, decodeErr |-> FALSE, streams |-> s] : s \in StreamLists}

\* getVideoAspectRatio(tempFile.Name()), the switch and fileKey
AspectRatio(p) ==
    /\ h[p].pc = "AspectRatio"
    /\ \E probe \in ProbeOutcomes :
         LET got == getVideoAspectRatio(probe) IN
         /\ hist' = [hist EXCEPT ![p].calls = @ \cup {"ffprobe"},
                                 ![p].probe = Ptr(probe),
                                 ![p].steps = Append(@,
                                    [op |-> "ffprobe",
                                     ok |-> ~probe.runErr /\ ~probe.decodeErr
                                            /\ probe.streams # <<>>])]
         /\ IF got.panic
            THEN Panic(p, h[p], fs)
            ELSE IF got.err
            THEN Respond(p, h[p], fs, 500, "Couldn't get video aspect ratio", Nil)
            ELSE Goto(p, [h[p] EXCEPT
                            !.aspectRatio = got.result,
                            !.fileKey = fileKeyOf(aspectRatioPrefix(got.result),
                                                  h[p].randBytes)],
                      "PutObject")
    /\ UNCHANGED <<cfg, db, s3, numCalls, geom>>

\* cfg.s3Client.PutObject(...)
PutObject(p) ==
    /\ h[p].pc = "PutObject"
    /\ \E err \in BOOLEAN :
         LET input == [Bucket |-> cfg.s3Bucket, Key |-> h[p].fileKey,
                       ContentType |-> h[p].mediaType] IN
         /\ hist' = [hist EXCEPT ![p].calls = @ \cup {"PutObject"},
                                 ![p].put = @ \cup {[input |-> input, err |-> err]},
                                 ![p].steps = Append(@, [op |-> "PutObject", ok |-> ~err])]
         /\ s3' = IF err THEN s3 ELSE s3 \cup {input}
         /\ IF putObjectReturns(err)
            THEN Respond(p, h[p], fs, 500, "Couldn't upload video", Nil)
            ELSE Goto(p, h[p], "UpdateVideo")
    /\ UNCHANGED <<cfg, db, numCalls, geom>>

\* video.VideoURL = &videoUrl; cfg.db.UpdateVideo(video)
UpdateVideo(p) ==
    /\ h[p].pc = "UpdateVideo"
    /\ LET videoUrl == videoUrlOf(cfg.s3Bucket, h[p].fileKey)
           video == [h[p].video EXCEPT !.VideoURL = Ptr(videoUrl)]
           hp == [h[p] EXCEPT !.video = video]
       IN \E err \in BOOLEAN :
            IF err
            THEN /\ Respond(p, hp, fs, 500, "Couldn't update video", Nil)
                 /\ Called(p, "UpdateVideo")
                 /\ UNCHANGED db
            ELSE /\ Goto(p, hp, "SignedVideo")
                 /\ hist' = [hist EXCEPT ![p].calls = @ \cup {"UpdateVideo"},
                                         ![p].wrote = TRUE]
                 /\ db' = dbUpdateVideo(db, video)
    /\ UNCHANGED <<cfg, s3, numCalls, geom>>

\* the signed record saved back to the metadata store: a faulty variant
SignedVideoSaves(p) ==
    /\ h[p].pc = "SignedVideo"
    /\ \E presignErr \in BOOLEAN :
         LET got == dbVideoToSignedVideo(h[p].video, presignErr)
             hp == [h[p] EXCEPT !.video = got.video]
         IN /\ presignErr => got.signed
            /\ hist' = [hist EXCEPT ![p].calls =
                          @ \cup (IF got.signed THEN {"PresignGetObject"} ELSE {})]
            /\ db' = got.video
            /\ IF got.err
               THEN Respond(p, hp, fs, 500, "Couldn't generate presigned URL", Nil)
               ELSE Respond(p, hp, fs, 200, "", Ptr(got.video))
    /\ UNCHANGED <<cfg, s3, numCalls, geom>>

\* cfg.dbVideoToSignedVideo(video); respondWithJSON(w, http.StatusOK, video)
SignedVideo(p) ==
    /\ h[p].pc = "SignedVideo"
    /\ \E presignErr \in BOOLEAN :
         LET got == dbVideoToSignedVideo(h[p].video, presignErr)
             hp == [h[p] EXCEPT !.video = got.video]
         IN /\ presignErr => got.signed
            /\ hist' = [hist EXCEPT ![p].calls =
                          @ \cup (IF got.signed THEN {"PresignGetObject"} ELSE {})]
            /\ IF got.err
               THEN Respond(p, hp, fs, 500, "Couldn't generate presigned URL", Nil)
               ELSE Respond(p, hp, fs, 200, "", Ptr(got.video))
    /\ UNCHANGED <<cfg, db, s3, numCalls, geom>>

----------------------------------------------------------------------------
(* handlerUploadThumbnail, one action per step *)

\* declared Content-Type headers of the thumbnail part
ThumbHeaders == {"", "image/png", "image/jpeg", "video/mp4", "video/mp4; codecs"}

\* mime.ExtensionsByType for the two accepted types
ExtensionsByType(mediaType) ==
    IF mediaType = "image/png" THEN <<".png">>
    ELSE <<".jfif", ".jpe", ".jpeg", ".jpg">>

\* base64.RawURLEncoding.EncodeToString: the URL-safe alphabet, no padding
RawEncodeToString(b) == <<EncodeToString(b)[1]>>

\* fmt.Sprintf("http://localhost:%s/assets/%s", cfg.port, fileName)
thumbnailURLOf(port, fileName) == <<"http://localhost:", port, "/assets/">> \o fileName

\* filepath.Join(cfg.assetsRoot, fileName)
assetPathOf(assetsRoot, fileName) == <<assetsRoot, "/">> \o fileName

ThumbStart(t) ==
    /\ h[t].pc \in {"idle", "done"}
    /\ numCalls < MaxCalls
    /\ h' = [h EXCEPT ![t] = [Locals EXCEPT !.pc = "T_ParseID"]]
    /\ hist' = [hist EXCEPT ![t] = [History EXCEPT !.ptrBefore = db.VideoURL]]
    /\ numCalls' = numCalls + 1
    /\ UNCHANGED <<cfg, db, s3, fs, geom>>

\* uuid.Parse(r.PathValue("videoID"))
ThumbParseID(t) ==
    /\ h[t].pc = "T_ParseID"
    /\ \E err \in BOOLEAN :
         IF err
         THEN Respond(t, h[t], fs, 400, "Invalid ID", Nil)
         ELSE Goto(t, h[t], "T_GetBearerToken")
    /\ UNCHANGED <<cfg, db, s3, hist, numCalls, geom>>

\* auth.GetBearerToken(r.Header)
ThumbGetBearerToken(t) ==
    /\ h[t].pc = "T_GetBearerToken"
    /\ \E err \in BOOLEAN :
         IF err
         THEN Respond(t, h[t], fs, 401, "Couldn't find JWT", Nil)
         ELSE Goto(t, h[t], "T_ValidateJWT")
    /\ UNCHANGED <<cfg, db, s3, hist, numCalls, geom>>

\* auth.ValidateJWT(token, cfg.jwtSecret)
ThumbValidateJWT(t) ==
    /\ h[t].pc = "T_ValidateJWT"
    /\ \/ Respond(t, h[t], fs, 401, "Couldn't validate JWT", Nil)
       \/ \E userID \in Users :
            Goto(t, [h[t] EXCEPT !.userID = userID], "T_FormFile")
    /\ UNCHANGED <<cfg, db, s3, hist, numCalls, geom>>

\* r.ParseMultipartForm(maxMemory); r.FormFile("thumbnail")
ThumbFormFile(t) ==
    /\ h[t].pc = "T_FormFile"
    /\ \E err \in BOOLEAN, contentHeader \in ThumbHeaders :
         IF err
         THEN /\ contentHeader = ""
              /\ Respond(t, h[t], fs, 400, "Unable to parse form file", Nil)
         ELSE Goto(t, [h[t] EXCEPT !.file = TRUE, !.contentHeader = contentHeader],
                   "T_ContentType")
    /\ UNCHANGED <<cfg, db, s3, hist, numCalls, geom>>

\* the checks of header.Header.Get("Content-Type")
ThumbContentType(t) ==
    /\ h[t].pc = "T_ContentType"
    /\ LET parsed == ParseMediaType(h[t].contentHeader) IN
         IF h[t].contentHeader = ""
         THEN Respond(t, h[t], fs, 400, "Couldn't find media type", Nil)
         ELSE IF parsed.err
         THEN Respond(t, h[t], fs, 400, "Couldn't parse media type", Nil)
         ELSE IF parsed.mediatype # "image/jpeg" /\ parsed.mediatype # "image/png"
         THEN Respond(t, h[t], fs, 400, "Unsupported media type", Nil)
         ELSE Goto(t, [h[t] EXCEPT !.mediaType = parsed.mediatype], "T_ReadAll")
    /\ UNCHANGED <<cfg, db, s3, hist, numCalls, geom>>

\* io.ReadAll(file)
ThumbReadAll(t) ==
    /\ h[t].pc = "T_ReadAll"
    /\ \E err \in BOOLEAN :
         IF err
         THEN Respond(t, h[t], fs, 500, "Couldn't read file", Nil)
         ELSE Goto(t, h[t], "T_GetVideo")
    /\ UNCHANGED <<cfg, db, s3, hist, numCalls, geom>>

\* cfg.db.GetVideo(videoID)
ThumbGetVideo(t) ==
    /\ h[t].pc = "T_GetVideo"
    /\ Called(t, "GetVideo")
    /\ \E err \in BOOLEAN :
         IF err
         THEN Respond(t, h[t], fs, 500, "Couldn't find video", Nil)
         ELSE Goto(t, [h[t] EXCEPT !.video = dbGetVideo(db)], "T_CheckOwner")
    /\ UNCHANGED <<cfg, db, s3, numCalls, geom>>

\* if video.UserID != userID
ThumbCheckOwner(t) ==
    /\ h[t].pc = "T_CheckOwner"
    /\ IF h[t].video.UserID # h[t].userID
       THEN Respond(t, h[t], fs, 401, "You do not have permission", Nil)
       ELSE Goto(t, h[t], "T_Extensions")
    /\ UNCHANGED <<cfg, db, s3, hist, numCalls, geom>>

\* mime.ExtensionsByType(mediaType), which gives no error for a media type that
\* parsed; rand.Read(randBytes); fileName
ThumbExtensions(t) ==
    /\ h[t].pc = "T_Extensions"
    /\ \E randBytes \in RandBytes :
            LET fileExtension == ExtensionsByType(h[t].mediaType)
                fileName == RawEncodeToString(randBytes) \o <<fileExtension[1]>>
            IN Goto(t, [h[t] EXCEPT !.randBytes = randBytes, !.fileName = fileName],
                    "T_WriteFile")
    /\ UNCHANGED <<cfg, db, s3, hist, numCalls, geom>>

\* os.WriteFile(filePath, fileData, 0644)
ThumbWriteFile(t) ==
    /\ h[t].pc = "T_WriteFile"
    /\ \E err \in BOOLEAN :
         IF err
         THEN Respond(t, h[t], fs, 500, "Couldn't write thumbnail to file", Nil)
         ELSE /\ h' = [h EXCEPT ![t].pc = "T_UpdateVideo"]
              /\ fs' = fs \cup {assetPathOf(cfg.assetsRoot, h[t].fileName)}
    /\ UNCHANGED <<cfg, db, s3, hist, numCalls, geom>>

\* video.ThumbnailURL = &thumbnailURL; cfg.db.UpdateVideo(video);
\* respondWithJSON(w, http.StatusOK, video)
ThumbUpdateVideo(t) ==
    /\ h[t].pc = "T_UpdateVideo"
    /\ LET thumbnailURL == thumbnailURLOf(cfg.port, h[t].fileName)
           video == [h[t].video EXCEPT !.ThumbnailURL = Ptr(thumbnailURL)]
           ht == [h[t] EXCEPT !.video = video]
       IN \E err \in BOOLEAN :
            IF err
            THEN /\ Respond(t, ht, fs, 500, "Couldn't update thumbnail", Nil)
                 /\ Called(t, "UpdateVideo")
                 /\ UNCHANGED db
            ELSE /\ Respond(t, ht, fs, 200, "", Ptr(video))
                 /\ hist' = [hist EXCEPT ![t].calls = @ \cup {"UpdateVideo"},
                                         ![t].wrote = TRUE]
                 /\ db' = dbUpdateVideo(db, video)
    /\ UNCHANGED <<cfg, s3, numCalls, geom>>

----------------------------------------------------------------------------
(* The geometry classification on its own *)

InitGeom ==
    /\ Init!1 /\ Init!2 /\ Init!3 /\ Init!4 /\ Init!5 /\ Init!6 /\ Init!7
    /\ geom \in [Width : 0..MaxWidth, Height : 0..MaxHeight, category : {"none"}]

\* getVideoAspectRatio on a file whose first stream is geom.Width x geom.Height,
\* then the switch of handlerUploadVideo
Classify ==
    /\ geom.category = "none"
    /\ LET probe == [runErr |-> FALSE, decodeErr |-> FALSE,
                     streams |-> <<Stream(geom.Width, geom.Height)>>]
       IN geom' = [geom EXCEPT !.category =
                      aspectRatioPrefix(getVideoAspectRatio(probe).result)]
    /\ UNCHANGED <<cfg, db, s3, fs, h, hist, numCalls>>

----------------------------------------------------------------------------
(* Specifications *)

Next ==
    \E p \in Procs :
       \/ Start(p)
       \/ ParseID(p)
       \/ GetBearerToken(p)
       \/ ValidateJWT(p)
       \/ GetVideo(p)
       \/ CheckOwner(p)
       \/ FormFile(p)
       \/ ContentType(p)
       \/ CreateTemp(p)
       \/ Copy(p)
       \/ FastStart(p)
       \/ OpenProcessed(p)
       \/ RandRead(p)
       \/ AspectRatio(p)
       \/ PutObject(p)
       \/ UpdateVideo(p)
       \/ SignedVideo(p)

\* handler invocations, one after the other
Spec == Init /\ [][Next]_vars

NextGeom == Classify

\* the classification applied to every width and height within the bounds
SpecGeom == InitGeom /\ [][NextGeom]_vars

\* a step of handlerUploadVideo
IngestStep(p) ==
    \/ Start(p)
    \/ ParseID(p)
    \/ GetBearerToken(p)
    \/ ValidateJWT(p)
    \/ GetVideo(p)
    \/ CheckOwner(p)
    \/ FormFile(p)
    \/ ContentType(p)
    \/ CreateTemp(p)
    \/ Copy(p)
    \/ FastStart(p)
    \/ OpenProcessed(p)
    \/ RandRead(p)
    \/ AspectRatio(p)
    \/ PutObject(p)
    \/ UpdateVideo(p)
    \/ SignedVideo(p)

\* the requests of the interleaved specifications: the owner uploads a
\* one-byte part declared video/mp4 (image/png for a thumbnail) that holds one
\* 1920x1080 stream; the calls that can fail are those that create and remove
\* files and those to the two stores
OwnerRequest(p) ==
    /\ h[p].body.size \in {0, 1}
    /\ h[p].userID \in {"", "alice"}
    /\ h[p].file => h[p].contentHeader \in {"video/mp4", "image/png"}
    /\ h[p].randBytes \in {"zero", "ra"}
    /\ hist[p].ignored = {}
    /\ hist[p].probe \in
          {Nil, Ptr([runErr |-> FALSE, decodeErr |-> FALSE,
                     streams |-> <<Stream(1920, 1080)>>])}
    /\ h[p].resp.msg \in
          {"", "Couldn't create temporary file", "Couldn't process video",
           "Couldn't open processed video", "Couldn't upload video",
           "Couldn't update video", "Couldn't generate presigned URL",
           "Couldn't write thumbnail to file", "Couldn't update thumbnail"}

\* an ingestion and a thumbnail upload for the same video, interleaved
NextThumb ==
    \/ \E p \in Procs :
          \/ Start(p) /\ OwnerRequest(p)'
          \/ ParseID(p) /\ OwnerRequest(p)'
          \/ GetBearerToken(p) /\ OwnerRequest(p)'
          \/ ValidateJWT(p) /\ OwnerRequest(p)'
          \/ GetVideo(p) /\ OwnerRequest(p)'
          \/ CheckOwner(p) /\ OwnerRequest(p)'
          \/ FormFile(p) /\ OwnerRequest(p)'
          \/ ContentType(p) /\ OwnerRequest(p)'
          \/ CreateTemp(p) /\ OwnerRequest(p)'
          \/ Copy(p) /\ OwnerRequest(p)'
          \/ FastStart(p) /\ OwnerRequest(p)'
          \/ OpenProcessed(p) /\ OwnerRequest(p)'
          \/ RandRead(p) /\ OwnerRequest(p)'
          \/ AspectRatio(p) /\ OwnerRequest(p)'
          \/ PutObject(p) /\ OwnerRequest(p)'
          \/ UpdateVideo(p) /\ OwnerRequest(p)'
          \/ SignedVideo(p) /\ OwnerRequest(p)'
    \/ \E t \in Thumbs :
          \/ ThumbStart(t) /\ OwnerRequest(t)'
          \/ ThumbParseID(t) /\ OwnerRequest(t)'
          \/ ThumbGetBearerToken(t) /\ OwnerRequest(t)'
          \/ ThumbValidateJWT(t) /\ OwnerRequest(t)'
          \/ ThumbFormFile(t) /\ OwnerRequest(t)'
          \/ ThumbContentType(t) /\ OwnerRequest(t)'
          \/ ThumbReadAll(t) /\ OwnerRequest(t)'
          \/ ThumbGetVideo(t) /\ OwnerRequest(t)'
          \/ ThumbCheckOwner(t) /\ OwnerRequest(t)'
          \/ ThumbExtensions(t) /\ OwnerRequest(t)'
          \/ ThumbWriteFile(t) /\ OwnerRequest(t)'
          \/ ThumbUpdateVideo(t) /\ OwnerRequest(t)'

SpecThumb == Init /\ [][NextThumb]_vars

\* two ingestions, interleaved
NextPair ==
    \E p \in Pair :
       \/ Start(p) /\ OwnerRequest(p)'
       \/ ParseID(p) /\ OwnerRequest(p)'
       \/ GetBearerToken(p) /\ OwnerRequest(p)'
       \/ ValidateJWT(p) /\ OwnerRequest(p)'
       \/ GetVideo(p) /\ OwnerRequest(p)'
       \/ CheckOwner(p) /\ OwnerRequest(p)'
       \/ FormFile(p) /\ OwnerRequest(p)'
       \/ ContentType(p) /\ OwnerRequest(p)'
       \/ CreateTemp(p) /\ OwnerRequest(p)'
       \/ Copy(p) /\ OwnerRequest(p)'
       \/ FastStart(p) /\ OwnerRequest(p)'
       \/ OpenProcessed(p) /\ OwnerRequest(p)'
       \/ RandRead(p) /\ OwnerRequest(p)'
       \/ AspectRatio(p) /\ OwnerRequest(p)'
       \/ PutObject(p) /\ OwnerRequest(p)'
       \/ UpdateVideo(p) /\ OwnerRequest(p)'
       \/ SignedVideo(p) /\ OwnerRequest(p)'

SpecPair == Init /\ [][NextPair]_vars

\* cmd.Run() waits for the tool to exit, and the tool never exits
Hang(p) ==
    /\ h[p].pc \in {"FastStart", "AspectRatio"}
    /\ h' = [h EXCEPT ![p].pc = "blocked"]
    /\ hist' = [hist EXCEPT ![p].calls =
                  @ \cup {IF h[p].pc = "FastStart" THEN "ffmpeg" ELSE "ffprobe"}]
    /\ UNCHANGED <<cfg, db, s3, fs, numCalls, geom>>

NextLive ==
    \/ \E p \in Procs : IngestStep(p)
    \/ \E p \in Procs : Hang(p)

\* handler invocations whose tools may never exit; a goroutine that can take
\* a step takes one
SpecLive == Init /\ [][NextLive]_vars /\ WF_vars(NextLive)

----------------------------------------------------------------------------
(* Properties *)

Returned(p) == h[p].pc = "done"
Failed(p) == Returned(p) /\ h[p].resp.code # 200

\* the pointer handlerUploadVideo stores for an object
PointerTo(bucket, key) == Ptr(bucket \o <<",">> \o key)

\* C1: the stored pointer is written only after PutObject for the same bucket
\* and key returned success: an invocation that has written its pointer has a
\* successful PutObject for cfg.s3Bucket and its fileKey behind it, and the
\* pointer in the metadata store always names an object the store holds.
C1_PointerOnlyAfterUpload ==
    /\ db.VideoURL # Nil =>
          \E o \in s3 : db.VideoURL = PointerTo(o.Bucket, o.Key)
    /\ \A p \in Procs :
          hist[p].wrote =>
             \E e \in hist[p].put :
                /\ ~e.err
                /\ e.input.Bucket = cfg.s3Bucket
                /\ e.input.Key = h[p].fileKey
                /\ e.input \in s3

\* an invocation has stored its pointer, after its upload succeeded
C1_Witness ==
    \E p \in Procs :
       /\ h[p].pc = "SignedVideo"
       /\ hist[p].wrote
       /\ db.VideoURL = PointerTo(cfg.s3Bucket, h[p].fileKey)

\* C2: when handlerUploadVideo has returned (or panicked), none of the
\* temporary files it created is left: every file created was deleted.
C2_NoTempFileRemains ==
    \A p \in Procs :
       h[p].pc \in {"done", "panic"} => hist[p].created \cap fs = {}

\* C3: when handlerUploadVideo responds with a failure, it has written no
\* pointer: the metadata store holds the pointer it held before the call.
C3_FailureWritesNoPointer ==
    \A p \in Procs :
       Failed(p) => ~hist[p].wrote /\ db.VideoURL = hist[p].ptrBefore

\* C4: every step is a hard gate: after a failed copy into the staged file, a
\* failed rewind or a failed draw of the random bytes, the rewriter, the
\* classifier, PutObject and UpdateVideo are not invoked and the handler
\* returns a failure.
C4_HardGate ==
    \A p \in Procs :
       hist[p].ignored # {} =>
          /\ hist[p].calls \cap {"ffmpeg", "ffprobe", "PutObject", "UpdateVideo"} = {}
          /\ Returned(p) => Failed(p)

\* the part's declared Content-Type parses to a media type that is not video/mp4
DeclaredOtherType(p) ==
    /\ h[p].file
    /\ h[p].contentHeader # ""
    /\ ~ParseMediaType(h[p].contentHeader).err
    /\ ParseMediaType(h[p].contentHeader).mediatype # "video/mp4"

\* C5 as stated: for a declared media type other than video/mp4 the handler
\* rejects and calls neither the object store nor the metadata store
\* (GetVideo, UpdateVideo).
C5_NoStoreCalls ==
    \A p \in Procs :
       DeclaredOtherType(p) /\ Returned(p) =>
          /\ h[p].resp.code = 400
          /\ hist[p].calls \cap
                {"GetVideo", "UpdateVideo", "PutObject", "PresignGetObject"} = {}

\* C5, amended: for a declared media type other than video/mp4 the handler
\* rejects with a client error, makes no call to the object store and no
\* UpdateVideo; its one call to the metadata store is the GetVideo that read
\* the record for the ownership check, before the media type is looked at.
C5_NoStoreWrites ==
    \A p \in Procs :
       DeclaredOtherType(p) =>
          /\ h[p].pc \in {"ContentType", "done"}
          /\ Returned(p) => h[p].resp.code = 400
          /\ hist[p].calls = {"GetVideo"}
          /\ hist[p].put = {}
          /\ ~hist[p].wrote
          /\ db.VideoURL = hist[p].ptrBefore

\* an upload declared image/png has been rejected
C5_Witness ==
    \E p \in Procs :
       /\ Returned(p)
       /\ h[p].file
       /\ h[p].contentHeader = "image/png"
       /\ h[p].resp = [code |-> 400, msg |-> "Unsupported media type", body |-> Nil]

\* the part's declared Content-Type is empty, does not parse, or parses to a
\* media type that is not video/mp4
BadContentType(v) ==
    \/ v = ""
    \/ ParseMediaType(v).err
    \/ ParseMediaType(v).mediatype # "video/mp4"

\* C6: for a declared content-type that is empty, unparseable or another media
\* type, the handler returns a client error before any temporary file is
\* created and before any PutObject call.
C6_RejectBeforeTemp ==
    \A p \in Procs :
       h[p].file /\ BadContentType(h[p].contentHeader) =>
          /\ h[p].pc \in {"ContentType", "done"}
          /\ Returned(p) => h[p].resp.code = 400
          /\ hist[p].created = {}
          /\ h[p].tempFile = <<>>
          /\ "PutObject" \notin hist[p].calls

\* an upload whose declared type does not parse has been rejected, no file left
C6_Witness ==
    \E p \in Procs :
       /\ Returned(p)
       /\ h[p].file
       /\ h[p].contentHeader = "video/mp4; codecs"
       /\ h[p].resp = [code |-> 400, msg |-> "Couldn't parse media type", body |-> Nil]
       /\ fs = {}

\* the caller is not the owner of the record GetVideo returned
CallerNotOwner(p) == h[p].video.ID # "" /\ h[p].video.UserID # h[p].userID

\* C7: when the caller's ID differs from the record's owner ID, the handler
\* rejects with an authorization failure before any file is staged: no
\* temporary file is created, no external tool runs, PutObject and UpdateVideo
\* are not called.
C7_OwnerGate ==
    \A p \in Procs :
       CallerNotOwner(p) =>
          /\ h[p].pc \in {"CheckOwner", "done"}
          /\ Returned(p) => h[p].resp.code = 401
          /\ hist[p].created = {}
          /\ hist[p].calls = {"GetVideo"}

\* bob asked to upload to alice's video and has been turned away
C7_Witness ==
    \E p \in Procs :
       /\ Returned(p)
       /\ h[p].userID = "bob"
       /\ h[p].video.UserID = "alice"
       /\ h[p].resp.code = 401

\* C8: a request whose body exceeds the ceiling of 1 GB is rejected and its
\* bytes are not fully copied into the staged file.
C8_SizeCeiling ==
    \A p \in Procs :
       h[p].body.size > OneGB =>
          /\ hist[p].copied < h[p].body.size
          /\ Returned(p) => Failed(p)

\* C9: for width >= 0 and height > 0 the category is landscape iff
\* 1.70 <= width/height <= 1.85, portrait iff 0.50 <= width/height <= 0.60,
\* other otherwise, the boundary ratios included.
C9_Classification ==
    geom.category # "none" /\ geom.Height > 0 =>
       LET w == geom.Width
           ht == geom.Height
           landscape == 170 * ht <= 100 * w /\ 100 * w <= 185 * ht
           portrait == 50 * ht <= 100 * w /\ 100 * w <= 60 * ht
       IN /\ geom.category \in {"landscape", "portrait", "other"}
          /\ geom.category = "landscape" <=> landscape
          /\ geom.category = "portrait" <=> portrait
          /\ geom.category = "other" <=> ~landscape /\ ~portrait

\* the ratio 1.85 itself has been classified, as landscape
C9_Witness == geom = [Width |-> 37, Height |-> 20, category |-> "landscape"]

\* the stream inspection ran and decoded, and reported no stream
EmptyStreamList(p) ==
    /\ hist[p].probe # Nil
    /\ ~hist[p].probe[1].runErr
    /\ ~hist[p].probe[1].decodeErr
    /\ hist[p].probe[1].streams = <<>>

\* C10: when the stream inspection reports an empty stream list, the handler
\* answers with a processing failure (no upload, no pointer written, temporary
\* files removed) rather than crashing.
C10_EmptyStreamsFail ==
    \A p \in Procs :
       EmptyStreamList(p) =>
          /\ Returned(p)
          /\ h[p].resp.code = 500
          /\ "PutObject" \notin hist[p].calls
          /\ ~hist[p].wrote
          /\ hist[p].created \cap fs = {}

\* the first stream of a list that has a width and a height: the first video
\* stream (0 when the list has none)
FirstVideoIndex(streams) ==
    LET video == {i \in DOMAIN streams : streams[i].Width > 0 /\ streams[i].Height > 0}
    IN IF video = {} THEN 0 ELSE CHOOSE i \in video : \A j \in video : i <= j

\* C11: the category is the one the first video stream's width and height
\* determine, also when streams without width and height come before it.
C11_FirstVideoStream ==
    \A p \in Procs :
       h[p].fileKey # <<>> /\ hist[p].probe # Nil
          /\ FirstVideoIndex(hist[p].probe[1].streams) > 0 =>
          LET streams == hist[p].probe[1].streams
              first == streams[FirstVideoIndex(streams)]
              ratio == first.Width * 100
              landscape == 170 * first.Height <= ratio /\ ratio <= 185 * first.Height
              portrait == 50 * first.Height <= ratio /\ ratio <= 60 * first.Height
          IN h[p].fileKey[1] = IF landscape THEN "landscape"
                               ELSE IF portrait THEN "portrait" ELSE "other"

\* the URL signed for bucket and key
SignedFor(bucket, key) ==
    Ptr(generatePresignedURL(bucket, key, expireTime, FALSE).url)

\* C12: every success response carries a freshly signed playback URL in
\* VideoURL, never the raw stored pointer, for every configured bucket name.
C12_SuccessIsSigned ==
    \A p \in Procs :
       Returned(p) /\ h[p].resp.code = 200 =>
          /\ h[p].resp.body # Nil
          /\ h[p].resp.body[1].VideoURL # PointerTo(cfg.s3Bucket, h[p].fileKey)
          /\ h[p].resp.body[1].VideoURL = SignedFor(cfg.s3Bucket, h[p].fileKey)

\* C14: generating the signed URL does not change the stored pointer: once an
\* invocation has written its pointer, the metadata store holds that pointer
\* through dbVideoToSignedVideo and after it, with or without error, and the
\* signed URL is in the returned record only.
C14_SigningKeepsPointer ==
    \A p \in Procs :
       hist[p].wrote =>
          /\ db.VideoURL = PointerTo(cfg.s3Bucket, h[p].fileKey)
          /\ db = [h[p].video EXCEPT !.VideoURL = db.VideoURL]
          /\ Returned(p) /\ h[p].resp.code = 200 /\ "PresignGetObject" \in hist[p].calls =>
                /\ h[p].resp.body[1].VideoURL # db.VideoURL
                /\ h[p].video.VideoURL # db.VideoURL

\* a URL has been signed and returned, the store still holding the pointer
C14_Witness ==
    \E p \in Procs :
       /\ Returned(p)
       /\ h[p].resp.code = 200
       /\ "PresignGetObject" \in hist[p].calls
       /\ h[p].resp.body[1].VideoURL = SignedFor(cfg.s3Bucket, h[p].fileKey)
       /\ db.VideoURL = PointerTo(cfg.s3Bucket, h[p].fileKey)

\* '<category>/<random-id>.mp4'
KeyForm(key) ==
    /\ Len(key) = 5
    /\ key[1] \in {"landscape", "portrait", "other"}
    /\ key[2] = "/"
    /\ <<key[3], key[4]>> \in {EncodeToString(b) : b \in RandBytes}
    /\ key[5] = ".mp4"

\* C15: the storage key is assigned before the upload attempt and does not
\* change afterwards: it has the form '<category>/<random-id>.mp4', the key
\* passed to PutObject is the key the invocation still holds, and the key in
\* the persisted pointer is that key.
C15_KeyAssignedOnce ==
    \A p \in Procs :
       /\ h[p].pc \in {"PutObject", "UpdateVideo", "SignedVideo"} => h[p].fileKey # <<>>
       /\ h[p].fileKey # <<>> => KeyForm(h[p].fileKey)
       /\ \A e \in hist[p].put : e.input.Key = h[p].fileKey
       /\ Cardinality(hist[p].put) <= 1
       /\ hist[p].wrote =>
             \E e \in hist[p].put : db.VideoURL = PointerTo(cfg.s3Bucket, e.input.Key)

\* a pointer has been persisted for a portrait upload
C15_Witness ==
    \E p \in Procs :
       /\ hist[p].wrote
       /\ h[p].fileKey[1] = "portrait"
       /\ \E e \in hist[p].put : db.VideoURL = PointerTo(cfg.s3Bucket, e.input.Key)

NoComma(str) == \A i \in DOMAIN str : str[i] # ","

\* C16: every key the handler derives holds no comma, and for a bucket name
\* without a comma the pointer it wrote splits at commas into exactly the
\* bucket and the key that were joined, and the URL is signed for them.
C16_PointerSplitsBack ==
    \A p \in Procs :
       /\ NoComma(h[p].fileKey)
       /\ hist[p].wrote /\ NoComma(cfg.s3Bucket) =>
             /\ db.VideoURL = Ptr(cfg.s3Bucket \o <<",">> \o h[p].fileKey)
             /\ Split(db.VideoURL[1]) = <<cfg.s3Bucket, h[p].fileKey>>
             /\ Returned(p) /\ h[p].resp.code = 200 =>
                   h[p].resp.body[1].VideoURL = SignedFor(cfg.s3Bucket, h[p].fileKey)

\* a pointer written for the bucket without a comma has been split and signed
C16_Witness ==
    \E p \in Procs :
       /\ Returned(p)
       /\ h[p].resp.code = 200
       /\ hist[p].wrote
       /\ cfg.s3Bucket = <<"tubely">>
       /\ Len(Split(db.VideoURL[1])) = 2

\* C17: the rewrite and the classification start only after the copy into the
\* staged file has returned, and PutObject starts only after the rewrite and
\* the classification have both succeeded.
C17_StepOrder ==
    \A p \in Procs :
       LET steps == hist[p].steps IN
       \A i \in DOMAIN steps :
          /\ steps[i].op \in {"ffmpeg", "ffprobe"} =>
                \E j \in 1..(i - 1) : steps[j].op = "io.Copy"
          /\ steps[i].op = "PutObject" =>
                /\ \E j \in 1..(i - 1) : steps[j] = [op |-> "ffmpeg", ok |-> TRUE]
                /\ \E j \in 1..(i - 1) : steps[j] = [op |-> "ffprobe", ok |-> TRUE]

\* PutObject has started
C17_Witness ==
    \E p \in Procs :
       \E i \in DOMAIN hist[p].steps : hist[p].steps[i].op = "PutObject"

\* C13: the ingestion overwrites the playback pointer only: its UpdateVideo
\* leaves every other field of the stored record as it was immediately before
\* the call, whatever a concurrent handlerUploadThumbnail has done.
C13_OnlyPointerOverwritten ==
    [][\A p \in Procs :
          h[p].pc = "UpdateVideo" /\ h'[p].pc # "UpdateVideo" =>
             /\ db'.ThumbnailURL = db.ThumbnailURL
             /\ db'.UserID = db.UserID
             /\ db'.ID = db.ID]_vars

\* C18: the rewrite and the inspection are bounded by a timeout, so an
\* ingestion that has reached one of them eventually returns, also when the
\* tool never exits.
C18_EventuallyReturns ==
    \A p \in Procs :
       (h[p].pc \in {"FastStart", "AspectRatio"}) ~> (h[p].pc \in {"done", "panic"})

Live(p) == h[p].pc \notin {"idle", "done", "panic"}

\* the staged path and the rewritten path of an invocation
TempPaths(p) == {h[p].tempFile, hist[p].outputPath} \ {<<>>}

\* C19: concurrent ingestions share no temporary file: the rewritten path of an
\* ingestion is not its staged path, the file it opens and uploads is its own
\* rewritten file, the staged and rewritten paths of two live ingestions are
\* all different, and no step of one ingestion creates, writes over or removes
\* a path of another live ingestion.
C19_NoSharedTemp ==
    /\ [](\A p \in Pair :
            /\ hist[p].outputPath # <<>> =>
                  /\ hist[p].outputPath # h[p].tempFile
                  /\ hist[p].outputPath = h[p].tempFile \o <<".processing">>
            /\ h[p].pc \in {"PutObject", "UpdateVideo", "SignedVideo"} =>
                  /\ h[p].processedFilePath \in fs
                  /\ h[p].processedFilePath = hist[p].outputPath
            /\ \A q \in Pair \ {p} :
                  Live(p) /\ Live(q) =>
                     /\ TempPaths(p) \cap TempPaths(q) = {}
                     /\ hist[p].created \cap hist[q].created = {})
    /\ [][\A p \in Pair : \A q \in Pair \ {p} :
             h'[p] # h[p] /\ Live(q) =>
                /\ (fs \ fs') \cap (TempPaths(q) \cup hist[q].created) = {}
                /\ (fs' \ fs) \cap (TempPaths(q) \cup hist[q].created) = {}]_vars

\* two ingestions are live, each with its staged and its rewritten file
C19_Witness ==
    /\ h["p1"].pc = "PutObject"
    /\ h["p2"].pc = "PutObject"
    /\ Cardinality(TempPaths("p1") \cup TempPaths("p2")) = 4
    /\ TempPaths("p1") \cup TempPaths("p2") \subseteq fs

====
